---- MODULE Spec2Model ----
(***************************************************************************)
(* SimpleServer: the lifecycle controller of an externally spawned dev     *)
(* server task, the editor-change subscription, the preview navigation and *)
(* the status bar item.                                                    *)
(*                                                                         *)
(* The repository holds three revisions of SimpleServer.ts:                *)
(*   "A"  src/src/SimpleServer.ts          (15 s poll, returns false)      *)
(*   "B"  src/unnamed/part_000:121-322     (logger, open failure caught)   *)
(*   "C"  src/unnamed/part_000:369-548     (checkTimeout, no logger)       *)
(* The revision is a configuration chosen in Init; every operation is      *)
(* translated per revision where the revisions differ.                     *)
(*                                                                         *)
(* JavaScript runs the controller on one thread: every action below is one *)
(* whole synchronous handler, or the code of one async function that runs  *)
(* when a host operation it awaits (the command provider, executeTask, the *)
(* url resolver, fetch, sleep, executeCommand) settles, up to the next     *)
(* such await. An await of an already finished async function of the       *)
(* controller resumes in the same turn of the event loop, before any host  *)
(* event is dispatched, so it is no separate step.                         *)
(***************************************************************************)
EXTENDS Integers, FiniteSets, Sequences, TLC

\* ---------------------------------------------------------------- bounds
\* start() invocations that pass the entry guard (each owns one subscription
\* id and at most one launched task id)
MaxStarts == 2
\* _navigateCurrentPage() invocations in flight at the same time
MaxNavs == 1

\* ------------------------------------------------------ program constants
\* sleep(500) between two probes
PollInterval == 500
\* this.opt.checkTimeout ?? 10_000
DefaultCheckTimeout == 10000
\* 15 * 1000 of revision A
FixedCheckTimeout == 15000
\* a host that resumes a sleeping poll only after this many ms (the pause is
\* at least PollInterval; Date.now() is read again after it)
SlowTick == 15000

Revs == {"A", "B", "C"}
StartIds == 1..MaxStarts
NavIds == 1..MaxNavs

\* values of the optional fields
NoUrl == "none"
Urls == {"a", "b"}
RootUrl == "root"
NoHandle == 0
TermHandle == -1
\* opt.checkTimeout left undefined
NoTimeoutOpt == -1

VARIABLES
  rev,                  \* which revision of SimpleServer.ts runs
  checkTimeout,         \* opt.checkTimeout (NoTimeoutOpt: undefined)
  tick,                 \* ms by which Date.now() advances over one sleep(500)
  editorChangeListener, \* 0: undefined, else the id of the subscription held
  taskHandler,          \* NoHandle, TermHandle (adopted terminal) or a task id
  currentUrl,           \* NoUrl or the last recorded url
  serverStarted,        \* "undefined" | "false" | "true"
  barState,             \* StatusBar.state (opt.statusBar is configured)
  disposed,             \* dispose() has run: lifetime listeners disposed
  liveSubs,             \* editor-change subscriptions created and not disposed
  terminal,             \* the terminal named opt.taskName: none|alive|exited|closing
  tasks,                \* launched task executions: none|running|terminating|ended
  starts,               \* the start() invocations and where each is suspended
  navs,                 \* the _navigateCurrentPage() invocations: idle, or awaiting
                        \* the resolver ("resolve") or the open command ("open"),
                        \* or "rejected": its promise rejected, which nothing handles
  toggles               \* history: the toggle() calls made on a fresh session

ctrlVars == <<editorChangeListener, taskHandler, currentUrl, serverStarted, barState, disposed>>
envVars == <<liveSubs, terminal, tasks>>
cfgVars == <<rev, checkTimeout, tick>>
procVars == <<starts, navs>>
progVars == <<cfgVars, ctrlVars, envVars, procVars>>
vars == <<progVars, toggles>>

\* a start() invocation: where it is suspended, which branch _startTask took,
\* and the locals of its _detectServer call (dropped when start() ends)
IdleStart == [pc |-> "idle", via |-> "none", now |-> 0, url |-> NoUrl, probes |-> 0]
Ended(st, i, pc) == [st EXCEPT ![i].pc = pc, ![i].now = 0, ![i].url = NoUrl, ![i].probes = 0]

\* ------------------------------------------------------------ helpers
\* a faulty variant: the guard reads the readiness flag instead of the subscription
isStartedByFlag == serverStarted = "true"

\* get isStarted() { return !!this.editorChangeListener }
isStarted == editorChangeListener # 0

\* this.statusBar?.started() / spinning() / stopped(): StatusBar.state = s
BarEnter(s) == s

\* the slot of the next start() invocation that passes the entry guard
NextStart(i) == /\ starts[i].pc = "idle"
                /\ \A j \in StartIds : j < i => starts[j].pc # "idle"

\* the slots no invocation in flight holds
FreeNavs(nv) == {n \in NavIds : nv[n] \in {"idle", "rejected"}}
FirstFree(nv) == CHOOSE n \in FreeNavs(nv) : \A m \in FreeNavs(nv) : n <= m

\* _navigateCurrentPage(), up to its first await: returns at once without an
\* active editor (revision A: also without a workspace folder), else calls
\* opt.resolveUrl(uri) and suspends
NavSkips(ed) == ed = "none" \/ (rev = "A" /\ ed = "outWs")
CanNavigate(nv, ed) == NavSkips(ed) \/ FreeNavs(nv) # {}
NavigateCurrentPage(nv, ed) ==
  IF NavSkips(ed) THEN nv
  ELSE [nv EXCEPT ![FirstFree(nv)] = "resolve"]

\* ------------------------------------------------------------ stop()
\* taskHandler.dispose() of a launched task: execution.terminate()
Terminate(ts, h) ==
  IF h \in StartIds /\ ts[h] = "running" THEN [ts EXCEPT ![h] = "terminating"] ELSE ts
\* taskHandler.dispose() of an adopted terminal: Terminal.dispose()
CloseTerm(t, h) ==
  IF h = TermHandle /\ t \in {"alive", "exited"} THEN "closing" ELSE t

StopListener == 0
StopTaskHandler == NoHandle
\* a faulty variant: stop() forgets to reset currentUrl
StopCurrentUrlKept == currentUrl
StopCurrentUrl == NoUrl
StopServerStarted == "undefined"
StopBar == BarEnter("stopped")

\* a faulty variant: stop() clears the field without disposing the subscription
StopSubsKept == liveSubs
\* this.editorChangeListener?.dispose()
StopSubs == liveSubs \ {editorChangeListener}

\* stop(), run on top of the task and terminal states ts, t
DoStop(ts, t) ==
  /\ liveSubs' = StopSubs
  /\ editorChangeListener' = StopListener
  /\ tasks' = Terminate(ts, taskHandler)
  /\ terminal' = CloseTerm(t, taskHandler)
  /\ taskHandler' = StopTaskHandler
  /\ currentUrl' = StopCurrentUrl
  /\ serverStarted' = StopServerStarted
  /\ barState' = StopBar

\* ------------------------------------------------------------ start()
\* every step but an API call leaves the history of toggles alone
Quiet == toggles' = toggles

\* a faulty variant: the exit status test is inverted
ReuseExitedTerminal == terminal = "exited"

\* existsTask && existsTask.exitStatus == null
ReuseTerminal == terminal = "alive"

\* serverStarted after `await this._startTask()`: revisions B and C set it
\* true at once, revision A leaves it (s) to the poll's result
AfterTaskStarted(s) == IF rev = "A" THEN s ELSE "true"

\* start() past its guard up to its first await of a host operation:
\* with a terminal to reuse _startTask() returns at once and start() goes on
\* to opt.resolveUrl(); otherwise it awaits the command provider
StartBody(i) ==
  /\ NextStart(i)
  /\ barState' = BarEnter("spinning")
  /\ editorChangeListener' = i
  /\ liveSubs' = liveSubs \cup {i}
  /\ currentUrl' = IF rev = "B" THEN NoUrl ELSE currentUrl
  /\ IF ReuseTerminal
       THEN /\ taskHandler' = TermHandle
            /\ serverStarted' = AfterTaskStarted("false")
            /\ starts' = [starts EXCEPT ![i].pc = "resolveRoot", ![i].via = "adopt"]
       ELSE /\ taskHandler' = taskHandler
            /\ serverStarted' = "false"
            /\ starts' = [starts EXCEPT ![i].pc = "getCmd", ![i].via = "launch"]
  /\ UNCHANGED <<cfgVars, disposed, terminal, tasks, navs>>

\* how the history of toggle() calls moves on an API call
ToggleHist(call, startBranch) ==
  IF call = "toggle" /\ toggles = "fresh" /\ startBranch THEN "one"
  ELSE IF call = "toggle" /\ toggles = "one" /\ ~startBranch THEN "two"
  ELSE "off"

\* start(): if (this.isStarted) return
StartCall ==
  /\ ~disposed
  /\ toggles' = ToggleHist("start", FALSE)
  /\ IF isStarted
       THEN /\ UNCHANGED progVars
       ELSE \E i \in StartIds :
            /\ StartBody(i)

StopCall ==
  /\ ~disposed
  /\ DoStop(tasks, terminal)
  /\ toggles' = ToggleHist("stop", FALSE)
  /\ UNCHANGED <<cfgVars, disposed, procVars>>

\* toggle(): stop() if started, else start()
ToggleCall ==
  /\ ~disposed
  /\ toggles' = ToggleHist("toggle", ~isStarted)
  /\ IF isStarted
       THEN /\ DoStop(tasks, terminal)
            /\ UNCHANGED <<cfgVars, disposed, procVars>>
       ELSE \E i \in StartIds :
            /\ StartBody(i)

\* dispose(): stop(), statusBar?.dispose(), the lifetime listeners disposed.
\* The extension calls dispose() last: no API call follows it.
DisposeCall ==
  /\ ~disposed
  /\ DoStop(tasks, terminal)
  /\ disposed' = TRUE
  /\ toggles' = ToggleHist("dispose", FALSE)
  /\ UNCHANGED <<cfgVars, procVars>>

\* ------------------------------------------------- start(), continued
\* await this.opt.getStartServerCommand() resolves: new Task(...), then
\* tasks.executeTask(task) is called
GetCmdDone(i) ==
  /\ starts[i].pc = "getCmd"
  /\ starts' = [starts EXCEPT ![i].pc = "execTask"]
  /\ Quiet
  /\ UNCHANGED <<cfgVars, ctrlVars, envVars, navs>>

\* the command provider rejects: _startTask() and start() reject
GetCmdRejected(i) ==
  /\ starts[i].pc = "getCmd"
  /\ starts' = Ended(starts, i, "rejected")
  /\ Quiet
  /\ UNCHANGED <<cfgVars, ctrlVars, envVars, navs>>

\* await tasks.executeTask(task) resolves: the task runs,
\* this.taskHandler = { dispose() { execution.terminate() } }, and start()
\* goes on to opt.resolveUrl()
ExecTaskDone(i) ==
  /\ starts[i].pc = "execTask"
  /\ tasks' = [tasks EXCEPT ![i] = "running"]
  /\ taskHandler' = i
  /\ serverStarted' = AfterTaskStarted(serverStarted)
  /\ starts' = [starts EXCEPT ![i].pc = "resolveRoot"]
  /\ Quiet
  /\ UNCHANGED <<cfgVars, editorChangeListener, currentUrl, barState,
                 disposed, liveSubs, terminal, navs>>

ExecTaskRejected(i) ==
  /\ starts[i].pc = "execTask"
  /\ starts' = Ended(starts, i, "rejected")
  /\ Quiet
  /\ UNCHANGED <<cfgVars, ctrlVars, envVars, navs>>

\* the deadline of _detectServer, relative to the Date.now() of its entry
Timeout ==
  IF rev = "A" THEN FixedCheckTimeout
  ELSE IF checkTimeout = NoTimeoutOpt THEN DefaultCheckTimeout ELSE checkTimeout

\* what _detectServer returns when the loop ends without a successful probe
TimeoutResult == IF rev = "A" THEN "false" ELSE "true"

\* while (now < maxTime)
PollContinues(now, maxTime) == now < maxTime

\* revision A: this.serverStarted = await this._detectServer(rootUrl);
\* revisions B and C drop the result
AfterDetectStarted(res) == IF rev = "A" THEN res ELSE serverStarted

\* a faulty variant: the tail runs only if the session was not stopped meanwhile
StartTailUnlessStopped(i, st, e) ==
  /\ CanNavigate(navs, e)
  /\ navs' = IF editorChangeListener = 0 THEN navs ELSE NavigateCurrentPage(navs, e)
  /\ barState' = IF editorChangeListener = 0 THEN barState ELSE BarEnter("started")
  /\ starts' = Ended(st, i, "done")

\* the tail of start(): this._navigateCurrentPage(), which finds the active
\* editor e; this.statusBar?.started()
StartTail(i, st, e) ==
  /\ CanNavigate(navs, e)
  /\ navs' = NavigateCurrentPage(navs, e)
  /\ barState' = BarEnter("started")
  /\ starts' = Ended(st, i, "done")

\* _detectServer returns res and start() runs to its end
Finish(i, res, e) ==
  /\ serverStarted' = AfterDetectStarted(res)
  /\ StartTail(i, starts, e)

\* revision A always polls; revisions B and C only `if (rootUrl)`
Polls(u) == rev = "A" \/ u # NoUrl

\* `await this.opt.resolveUrl()` resolves with u; _detectServer(u) runs to
\* its first fetch(url), or start() runs to its end
ResolveRootDone(i, u, e) ==
  /\ starts[i].pc = "resolveRoot"
  /\ LET st == [starts EXCEPT ![i].url = u]
     IN  IF ~Polls(u)
           THEN /\ StartTail(i, starts, e)
                /\ serverStarted' = serverStarted
           ELSE IF PollContinues(0, Timeout)
           THEN /\ starts' = [st EXCEPT ![i].pc = "fetch", ![i].probes = 1]
                /\ UNCHANGED <<serverStarted, barState, navs>>
           ELSE Finish(i, TimeoutResult, e)
  /\ Quiet
  /\ UNCHANGED <<cfgVars, editorChangeListener, taskHandler, currentUrl,
                 disposed, envVars>>

ResolveRootRejected(i) ==
  /\ starts[i].pc = "resolveRoot"
  /\ starts' = Ended(starts, i, "rejected")
  /\ Quiet
  /\ UNCHANGED <<cfgVars, ctrlVars, envVars, navs>>

\* await fetch(url) resolves: return true
FetchOk(i, e) ==
  /\ starts[i].pc = "fetch"
  /\ starts[i].url # NoUrl
  /\ Finish(i, "true", e)
  /\ Quiet
  /\ UNCHANGED <<cfgVars, editorChangeListener, taskHandler, currentUrl, disposed, envVars>>

\* await fetch(url) rejects: caught, then sleep(500)
FetchFail(i) ==
  /\ starts[i].pc = "fetch"
  /\ starts' = [starts EXCEPT ![i].pc = "sleep"]
  /\ Quiet
  /\ UNCHANGED <<cfgVars, ctrlVars, envVars, navs>>

\* await sleep(500) resolves: now = Date.now(), and the loop test
SleepDone(i, e) ==
  /\ starts[i].pc = "sleep"
  /\ LET t == starts[i].now + tick
         st == [starts EXCEPT ![i].now = t]
     IN  IF PollContinues(t, Timeout)
           THEN /\ starts' = [st EXCEPT ![i].pc = "fetch", ![i].probes = @ + 1]
                /\ UNCHANGED <<serverStarted, barState, navs>>
           ELSE Finish(i, TimeoutResult, e)
  /\ Quiet
  /\ UNCHANGED <<cfgVars, editorChangeListener, taskHandler, currentUrl, disposed, envVars>>

\* ---------------------------------------------------------- navigation
\* a faulty variant: the tab test is inverted
DedupSkipNoTab(u, tab) == currentUrl = u /\ ~tab

\* _openUrl: if (this.currentUrl === url && hasSimpleBrowserOpened) return
\* (tab: a tab labelled 'Simple Browser' is found in window.tabGroups)
DedupSkip(u, tab) == currentUrl = u /\ tab

\* a faulty variant: serverStarted is tested against undefined, so false counts
RecordsUrlWhenSet == serverStarted # "undefined"

\* _openUrl: if (this.serverStarted) this.currentUrl = url
RecordsUrl == serverStarted = "true"

\* _navigateCurrentPage: revisions B and C open only `if (url)`, revision A
\* hands whatever the resolver returned to _openUrl
HandsToOpen(u) == rev = "A" \/ u # NoUrl

\* whether _openUrl(u) gets as far as executeCommand('simpleBrowser.api.open')
InvokesOpen(u, tab) == HandsToOpen(u) /\ ~DedupSkip(u, tab)

\* `await this.opt.resolveUrl(uri)` resolves with u; then _openUrl(u) up to
\* its await of commands.executeCommand('simpleBrowser.api.open', ...)
NavResolved(n, u, tab) ==
  /\ navs[n] = "resolve"
  /\ IF InvokesOpen(u, tab)
       THEN /\ currentUrl' = IF RecordsUrl THEN u ELSE currentUrl
            /\ navs' = [navs EXCEPT ![n] = "open"]
       ELSE /\ currentUrl' = currentUrl
            /\ navs' = [navs EXCEPT ![n] = "idle"]
  /\ Quiet
  /\ UNCHANGED <<cfgVars, editorChangeListener, taskHandler, serverStarted, barState,
                 disposed, envVars, starts>>

\* the url resolver rejects: _navigateCurrentPage() rejects, and no caller
\* awaits or catches it
NavResolveRejected(n) ==
  /\ navs[n] = "resolve"
  /\ navs' = [navs EXCEPT ![n] = "rejected"]
  /\ Quiet
  /\ UNCHANGED <<cfgVars, ctrlVars, envVars, starts>>

\* the open command resolves
OpenDone(n) ==
  /\ navs[n] = "open"
  /\ navs' = [navs EXCEPT ![n] = "idle"]
  /\ Quiet
  /\ UNCHANGED <<cfgVars, ctrlVars, envVars, starts>>

\* revision B wraps the await in try/catch; in revisions A and C the
\* rejection leaves _openUrl and _navigateCurrentPage
OpenFailureEscapes == rev # "B"

\* the open command rejects
OpenRejected(n) ==
  /\ navs[n] = "open"
  /\ navs' = [navs EXCEPT ![n] = IF OpenFailureEscapes THEN "rejected" ELSE "idle"]
  /\ Quiet
  /\ UNCHANGED <<cfgVars, ctrlVars, envVars, starts>>

\* window.activeTextEditor as a call finds it; only revision A asks for the
\* document's workspace folder
Editors == IF rev = "A" THEN {"none", "inWs", "outWs"} ELSE {"none", "inWs"}

RECURSIVE Callbacks(_, _, _)
\* every live subscription's callback runs this._navigateCurrentPage()
Callbacks(nv, e, k) ==
  IF k = 0 THEN nv ELSE Callbacks(NavigateCurrentPage(nv, e), e, k - 1)

\* window.onDidChangeActiveTextEditor fires; e is the new active editor
EditorChange(e) ==
  /\ NavSkips(e) \/ Cardinality(FreeNavs(navs)) >= Cardinality(liveSubs)
  /\ navs' = Callbacks(navs, e, Cardinality(liveSubs))
  /\ Quiet
  /\ UNCHANGED <<cfgVars, ctrlVars, envVars, starts>>

\* ------------------------------------------------- lifetime listeners
TaskName == "task"

\* a faulty variant: the listeners do not compare the name
NameMatchesAny(name) == TRUE

\* if (e.execution.task.name === this.opt.taskName) this.stop()
\* if (e.name === this.opt.taskName) this.stop()
NameMatches(name) == name = TaskName

\* a faulty variant: dispose() leaves the lifetime listeners registered
ListenersLiveEver == TRUE
\* this._disposables.forEach((i) => i.dispose()) has not run
ListenersLive == ~disposed

\* a task-ended or terminal-closed notification carrying `name`, delivered
\* when the tasks and the terminal have become ts, t
Notify(name, ts, t) ==
  IF ListenersLive /\ NameMatches(name)
    THEN /\ DoStop(ts, t)
         /\ UNCHANGED <<cfgVars, disposed, procVars>>
    ELSE /\ tasks' = ts
         /\ terminal' = t
         /\ UNCHANGED <<cfgVars, ctrlVars, liveSubs, procVars>>

\* a task launched by start() i ends (terminated, or on its own)
TaskEnded(i) ==
  /\ tasks[i] \in {"running", "terminating"}
  /\ Notify(TaskName, [tasks EXCEPT ![i] = "ended"], terminal)
  /\ Quiet

\* a task of another name ends
OtherTaskEnded ==
  /\ Notify("other", tasks, terminal)
  /\ Quiet

\* the terminal named opt.taskName is closed (disposed, or by the user)
TerminalClosed ==
  /\ terminal \in {"alive", "exited", "closing"}
  /\ Notify(TaskName, tasks, "none")
  /\ Quiet

\* a terminal of another name is closed
OtherTerminalClosed ==
  /\ Notify("other", tasks, terminal)
  /\ Quiet

\* a terminal named opt.taskName appears
TerminalOpened ==
  /\ terminal = "none"
  /\ terminal' = "alive"
  /\ Quiet
  /\ UNCHANGED <<cfgVars, ctrlVars, liveSubs, tasks, procVars>>

\* its process exits: exitStatus is set
TerminalExited ==
  /\ terminal = "alive"
  /\ terminal' = "exited"
  /\ Quiet
  /\ UNCHANGED <<cfgVars, ctrlVars, liveSubs, tasks, procVars>>

\* --------------------------------------------------------------- Init
\* the state after `new SimpleServer(opt)`. With opt.autoStart the
\* constructor has run start() up to its first await; revision A creates the
\* StatusBar only after that call, so its start() found no status bar.
InitCfg(t) ==
  /\ rev \in Revs
  /\ tick = t
  /\ checkTimeout \in (IF rev = "A" THEN {NoTimeoutOpt} ELSE {NoTimeoutOpt, 0})
  /\ tasks = [i \in StartIds |-> "none"]
  /\ disposed = FALSE
  /\ navs = [n \in NavIds |-> "idle"]
  /\ currentUrl = NoUrl
  /\ \E autoStart \in BOOLEAN :
       IF autoStart
         THEN /\ terminal \in {"none", "alive"}
              /\ editorChangeListener = 1
              /\ liveSubs = {1}
              /\ serverStarted = IF ReuseTerminal THEN AfterTaskStarted("false") ELSE "false"
              /\ barState = IF rev = "A" THEN "stopped" ELSE "spinning"
              /\ taskHandler = IF ReuseTerminal THEN TermHandle ELSE NoHandle
              /\ starts = [i \in StartIds |->
                             IF i # 1 THEN IdleStart
                             ELSE IF ReuseTerminal
                               THEN [IdleStart EXCEPT !.pc = "resolveRoot", !.via = "adopt"]
                               ELSE [IdleStart EXCEPT !.pc = "getCmd", !.via = "launch"]]
              /\ toggles = "off"
         ELSE /\ terminal = "none"
              /\ editorChangeListener = 0
              /\ liveSubs = {}
              /\ serverStarted = "undefined"
              /\ barState = "stopped"
              /\ taskHandler = NoHandle
              /\ starts = [i \in StartIds |-> IdleStart]
              /\ toggles = "fresh"

Init == InitCfg(SlowTick)

Next ==
  \/ StartCall
  \/ StopCall
  \/ ToggleCall
  \/ DisposeCall
  \/ \E i \in StartIds : GetCmdDone(i)
  \/ \E i \in StartIds : GetCmdRejected(i)
  \/ \E i \in StartIds : ExecTaskDone(i)
  \/ \E i \in StartIds : ExecTaskRejected(i)
  \/ \E i \in StartIds, u \in {RootUrl, NoUrl}, e \in Editors : ResolveRootDone(i, u, e)
  \/ \E i \in StartIds : ResolveRootRejected(i)
  \/ \E i \in StartIds, e \in Editors : FetchOk(i, e)
  \/ \E i \in StartIds : FetchFail(i)
  \/ \E i \in StartIds, e \in Editors : SleepDone(i, e)
  \/ \E e \in Editors : EditorChange(e)
  \/ \E n \in NavIds, u \in Urls \cup {NoUrl}, tab \in BOOLEAN : NavResolved(n, u, tab)
  \/ \E n \in NavIds : NavResolveRejected(n)
  \/ \E n \in NavIds : OpenDone(n)
  \/ \E n \in NavIds : OpenRejected(n)
  \/ \E i \in StartIds : TaskEnded(i)
  \/ OtherTaskEnded
  \/ TerminalClosed
  \/ OtherTerminalClosed
  \/ TerminalOpened
  \/ TerminalExited

Spec == Init /\ [][Next]_vars

\* ------------------------------------------------------ the poll alone
\* _detectServer against an endpoint whose every probe fails, with
\* opt.checkTimeout left to its default and a clock that advances by the
\* pause alone
InitPoll == InitCfg(PollInterval) /\ checkTimeout = NoTimeoutOpt

NextPoll ==
  \/ StartCall
  \/ \E i \in StartIds : GetCmdDone(i)
  \/ \E i \in StartIds : ExecTaskDone(i)
  \/ \E i \in StartIds, e \in Editors : ResolveRootDone(i, RootUrl, e)
  \/ \E i \in StartIds : FetchFail(i)
  \/ \E i \in StartIds, e \in Editors : SleepDone(i, e)

SpecPoll == InitPoll /\ [][NextPoll]_vars

\* ------------------------------------------------------------ properties
InFlight(i) == starts[i].pc \in {"getCmd", "execTask", "resolveRoot", "fetch", "sleep"}
Quiescent == /\ \A i \in StartIds : ~InFlight(i)
             /\ \A n \in NavIds : navs[n] \notin {"resolve", "open"}

\* a step in which stop() runs by a call of the API
RunsStop == StopCall \/ (ToggleCall /\ editorChangeListener # 0) \/ DisposeCall

\* the state a stop() leaves
StoppedShape ==
  /\ editorChangeListener = 0
  /\ taskHandler = NoHandle
  /\ currentUrl = NoUrl
  /\ barState = "stopped"

\* C1: from every reachable state a stop() leaves editorChangeListener and
\* taskHandler empty, currentUrl empty and the status bar 'stopped', and a
\* stop() called in the state a stop() left changes nothing
C1_StopIdempotent ==
  [][/\ RunsStop => StoppedShape'
     /\ (StopCall /\ StoppedShape /\ serverStarted = "undefined") => UNCHANGED progVars]_vars

\* C1: stop() has run while a start() was suspended at the poll and has
\* terminated the task that start() launched
C1_Witness ==
  /\ StoppedShape
  /\ \E i \in StartIds : starts[i].pc = "fetch" /\ tasks[i] = "terminating"

\* C2: a start() that finds a live terminal of the task's name makes it the
\* task handle, and neither then nor later calls the command provider or
\* launches a task
C2_NoDuplicateLaunch ==
  [][\A i \in StartIds :
       /\ (starts[i].pc = "idle" /\ starts'[i].pc # "idle" /\ terminal = "alive")
            => (taskHandler' = TermHandle /\ starts'[i].via = "adopt" /\ tasks' = tasks)
       /\ starts[i].via = "adopt"
            => (starts'[i].pc \notin {"getCmd", "execTask"} /\ tasks'[i] = "none")]_vars

\* C2: a start() that adopted the terminal has run to its end
C2_Witness ==
  \E i \in StartIds :
    /\ starts[i].via = "adopt" /\ starts[i].pc = "done"
    /\ taskHandler = TermHandle /\ tasks[i] = "none" /\ editorChangeListener = i

\* a task-ended or terminal-closed notification of the configured name
MatchingNotification == (\E i \in StartIds : TaskEnded(i)) \/ TerminalClosed
\* one of another name
OtherNotification == OtherTaskEnded \/ OtherTerminalClosed

\* C3: with the editor subscription present, a notification of the configured
\* name leaves the session stopped; one of another name changes nothing
C3_ExternalTermination ==
  [][/\ (MatchingNotification /\ editorChangeListener # 0)
          => (StoppedShape' /\ serverStarted' = "undefined")
     /\ OtherNotification => UNCHANGED progVars]_vars

\* C3: the session is started on a task it launched, that task ends on its
\* own, and the notification leaves the session stopped
C3_Witness ==
  /\ editorChangeListener # 0 /\ barState = "started"
  /\ taskHandler \in StartIds /\ tasks[taskHandler] = "running"
  /\ ENABLED (TaskEnded(taskHandler) /\ StoppedShape' /\ tasks'[taskHandler] = "ended")

\* no subscription, no task handle, no launched task left running, 'stopped'
StoppedEquivalent ==
  /\ editorChangeListener = 0
  /\ taskHandler = NoHandle
  /\ \A i \in StartIds : tasks[i] # "running"
  /\ barState = "stopped"

\* C4: after toggle() (start) and toggle() (stop) on a stopped session, once
\* every continuation has run, the session is equivalent to stopped
C4_ToggleSymmetry == (toggles = "two" /\ Quiescent) => StoppedEquivalent

\* C5: a navigation to the recorded url while the preview tab is open does
\* not invoke the open command and leaves the recorded url
C5_DedupNavigation ==
  [][\A n \in NavIds, u \in Urls :
       (NavResolved(n, u, TRUE) /\ currentUrl = u)
         => (navs'[n] # "open" /\ currentUrl' = currentUrl)]_vars

\* C5: the session is started, a url is recorded, and a navigation to it with
\* the tab open ends without the open command
C5_Witness ==
  /\ serverStarted = "true" /\ barState = "started" /\ currentUrl \in Urls
  /\ ENABLED (\E n \in NavIds : NavResolved(n, currentUrl, TRUE) /\ navs'[n] = "idle")

\* C6: a navigation to a url other than the recorded one invokes the open
\* command once, and records the url exactly when serverStarted is true
C6_NavigationRecords ==
  [][\A n \in NavIds, u \in Urls, tab \in BOOLEAN :
       (NavResolved(n, u, tab) /\ u # currentUrl)
         => /\ navs'[n] = "open"
            /\ \A m \in NavIds \ {n} : navs'[m] = navs[m]
            /\ currentUrl' = (IF serverStarted = "true" THEN u ELSE currentUrl)]_vars

\* C6: with "a" recorded and the session started, the navigation to "b" has
\* invoked the open command and recorded "b"
C6_Witness ==
  /\ serverStarted = "true" /\ currentUrl = "a"
  /\ ENABLED (\E n \in NavIds : NavResolved(n, "b", TRUE) /\ navs'[n] = "open"
                                  /\ currentUrl' = "b")

\* the probes a poll of the default timeout makes
ExpectedProbes == DefaultCheckTimeout \div PollInterval

\* C7: with the default timeout and every probe failing, the poll ends no
\* later than 500 ms after the 10 000 ms deadline, after about 20 probes
C7_PollBound ==
  [][\A i \in StartIds :
       (starts[i].pc = "sleep" /\ starts'[i].pc = "done")
         => /\ starts[i].now + tick <= DefaultCheckTimeout + PollInterval
            /\ starts[i].probes \in (ExpectedProbes - 1)..(ExpectedProbes + 1)]_vars

\* C8: start() with the editor subscription present changes nothing
C8_StartNoop ==
  [][(StartCall /\ editorChangeListener # 0) => UNCHANGED progVars]_vars

\* C8: an earlier start() is suspended at its poll, and start() is called
\* and returns
C8_Witness ==
  /\ editorChangeListener # 0 /\ ~disposed
  /\ \E i \in StartIds : starts[i].pc = "fetch" /\ editorChangeListener = i
  /\ ENABLED (StartCall /\ UNCHANGED progVars)

\* C9: when the poll of a start() no stop() interrupted ends by its timeout,
\* start() ends with serverStarted true and the status bar 'started'
C9_TimeoutStillReady ==
  [][\A i \in StartIds :
       (starts[i].pc = "sleep" /\ starts'[i].pc # "sleep" /\ starts'[i].pc # "fetch"
        /\ editorChangeListener = i)
         => (starts'[i].pc = "done" /\ serverStarted' = "true" /\ barState' = "started")]_vars

\* C10: when the open command rejects, the navigation ends as after a
\* successful open: not rejected, and nothing else of the session changed
C10_OpenFailureSwallowed ==
  [][\A n \in NavIds :
       OpenRejected(n) => (navs'[n] = "idle" /\ UNCHANGED <<ctrlVars, envVars, starts>>)]_vars

\* C11: when the command provider or the url resolver of start() fails, the
\* failure does not leave start() as a rejection, and start() runs none of
\* its remaining steps
C11_ProviderFailureContained ==
  [][\A i \in StartIds :
       (GetCmdRejected(i) \/ ResolveRootRejected(i))
         => (starts'[i].pc # "rejected" /\ UNCHANGED <<ctrlVars, envVars, navs>>)]_vars

\* C12: a navigation without an active document calls neither the resolver
\* nor the open command; when the resolver returns no url the open command is
\* not reached; a returned url is handed to _openUrl
C12_NavigationGuards ==
  [][/\ EditorChange("none") => navs' = navs
     /\ \A n \in NavIds, tab \in BOOLEAN :
          NavResolved(n, NoUrl, tab) => (navs'[n] = "idle" /\ currentUrl' = currentUrl)
     /\ \A n \in NavIds, u \in Urls, tab \in BOOLEAN :
          (NavResolved(n, u, tab) /\ ~(currentUrl = u /\ tab)) => navs'[n] = "open"]_vars

\* the handle held before the step is disposed by the step: its task is
\* terminated (or had ended), its terminal is closing (or was gone)
HandleReleased ==
  /\ taskHandler \in StartIds => tasks'[taskHandler] # "running"
  /\ taskHandler = TermHandle => terminal' \notin {"alive", "exited"}

\* C13: dispose() from every state performs stop(), disposing the editor
\* subscription and the task handle, and disposes the lifetime listeners: a
\* notification delivered after dispose() changes no field of the session
C13_DisposeReleases ==
  [][/\ DisposeCall => /\ StoppedShape' /\ serverStarted' = "undefined"
                       /\ editorChangeListener \notin liveSubs'
                       /\ HandleReleased
                       /\ disposed'
     /\ (disposed /\ (MatchingNotification \/ OtherNotification))
          => UNCHANGED <<ctrlVars, liveSubs>>]_vars

\* C13: after dispose() the start() it interrupted has stored the handle of
\* the task it launched; that task ends and the notification leaves the
\* handle in place
C13_Witness ==
  /\ disposed /\ taskHandler \in StartIds /\ tasks[taskHandler] = "running"
  /\ ENABLED (TaskEnded(taskHandler) /\ taskHandler' = taskHandler)

\* C14: a stop() leaves every suspended start() where it is, and the
\* suspended start() goes on as if nothing happened: it stores the handle of
\* the task it launched and ends by setting the status bar to 'started'
C14_StopDoesNotAbort ==
  [][\A i \in StartIds :
       /\ (InFlight(i) /\ (RunsStop \/ MatchingNotification)) => starts'[i] = starts[i]
       /\ ExecTaskDone(i) => taskHandler' = i
       /\ (InFlight(i) /\ starts'[i].pc = "done") => barState' = "started"]_vars

\* C14: a start() interrupted by a stop() has run to its end: the editor
\* subscription is cleared, yet serverStarted is set, the handle of the
\* launched task is stored and the status bar shows 'started'
C14_Witness ==
  /\ editorChangeListener = 0 /\ barState = "started" /\ serverStarted # "undefined"
  /\ \E i \in StartIds : starts[i].pc = "done" /\ taskHandler = i /\ tasks[i] = "running"

\* C15: the editor subscription is present exactly when the status bar does
\* not show 'stopped'
C15_SubscriptionIffNotStopped ==
  (editorChangeListener # 0) <=> (barState # "stopped")

\* C16: every step that replaces or clears a task handle has disposed it
C16_HandleDisposedFirst ==
  [][(taskHandler # NoHandle /\ taskHandler' # taskHandler) => HandleReleased]_vars

\* C17: currentUrl is empty after every stop(), and empty when a start()
\* that passed its guard begins to acquire the task
C17_UrlEmptyAtStopAndStart ==
  [][/\ RunsStop => currentUrl' = NoUrl
     /\ \A i \in StartIds :
          (starts[i].pc = "idle" /\ starts'[i].pc # "idle") => currentUrl' = NoUrl]_vars

\* the tasks the controller launched that are running
AliveTasks == {i \in StartIds : tasks[i] = "running"}

\* C18: at most one task launched by the controller is alive
C18_OneTaskAlive == Cardinality(AliveTasks) <= 1

\* C19: while the editor subscription stays cleared, no navigation reaches
\* the open command
C19_NoOpenWhileStopped ==
  [][(editorChangeListener = 0 /\ editorChangeListener' = 0)
       => \A n \in NavIds : navs'[n] = "open" => navs[n] = "open"]_vars

\* C20: at most one editor subscription is live, and a live one is the one
\* editorChangeListener holds
C20_OneLiveSubscription ==
  liveSubs = (IF editorChangeListener = 0 THEN {} ELSE {editorChangeListener})

\* C20: a second start() holds its own subscription, the first one's having
\* been disposed by the stop() in between
C20_Witness ==
  /\ editorChangeListener = 2 /\ liveSubs = {2}
  /\ starts[1].pc # "idle"

====
